---- MODULE Spec2Model ----
(***************************************************************************)
(* spellkit: the symmetric-delete index (symspell.rs), the protection      *)
(* predicate (guards.rs) and the Checker facade (lib.rs).                  *)
(*                                                                         *)
(* A string is a sequence of Unicode code points (integers), so that       *)
(* String::cmp is the lexicographic order of the sequences and             *)
(* chars().count() is Len.                                                 *)
(***************************************************************************)
EXTENDS Integers, Sequences, FiniteSets, TLC

VARIABLES
    state,      \* lib.rs CheckerState, the value behind Arc<RwLock<..>>
    published,  \* history: the CheckerState written by the last load that returned Ok
    now,        \* SystemTime::now() in seconds; advances with every load attempt
    ret,        \* the last call on the Checker and what it returned
    sym,        \* a SymSpell value used directly (as in symspell.rs mod tests)
    sret,       \* the last call on sym and what it returned
    inserted,   \* history: per key, which of the rows passed to add_word came first
                \* with the highest frequency, and which came last
    grd,        \* a Guards value used directly (as in guards.rs)
    glines,     \* history: the lines that the loaders of grd accepted
    lock,       \* the RwLock around state: who holds it
    rd,         \* the reader calls in flight, each with its position
    wr          \* the load_full call in flight and its position

checkerVars == <<state, published, now, ret>>
symVars == <<sym, sret, inserted>>
guardVars == <<grd, glines>>
lockVars == <<lock, rd, wr>>
vars == <<checkerVars, symVars, guardVars, lockVars>>

\* Option<T>: None is the empty sequence, Some(x) the one-element sequence
None == <<>>
Some(x) == <<x>>
Unwrap(o) == o[1]
UnwrapOr(o, default) == IF o = <<>> THEN default ELSE o[1]

\* Result<T, magnus::Error>
Ok(x) == [ok |-> TRUE, val |-> x]
Err(class) == [ok |-> FALSE, err |-> class]

----------------------------------------------------------------------------
(* Characters                                                              *)

IsAsciiUpper(c) == c >= 65 /\ c <= 90
IsDigit(c) == c >= 48 /\ c <= 57
\* char::is_control: general category Cc
IsControl(c) == c <= 31 \/ (c >= 127 /\ c <= 159)
\* char::is_whitespace: White_Space (the code points the model can hold)
IsWhitespace(c) == c \in {9, 10, 11, 12, 13, 32, 133, 160}

\* compatibility decomposition of one code point: U+FF21 FULLWIDTH LATIN
\* CAPITAL LETTER A decomposes to U+0041, U+00A0 NO-BREAK SPACE to U+0020;
\* ASCII is unchanged
NfkdChar(c) ==
    IF c = 65313 THEN <<65>>
    ELSE IF c = 160 THEN <<32>>
    ELSE <<c>>

\* char::to_lowercase for the code points the model can hold
LowerChar(c) ==
    IF IsAsciiUpper(c) THEN c + 32
    ELSE IF c = 65313 THEN 65345
    ELSE c

RECURSIVE Nfkd(_)
Nfkd(s) == IF s = <<>> THEN <<>> ELSE NfkdChar(Head(s)) \o Nfkd(Tail(s))

RECURSIVE FilterChars(_)
FilterChars(s) ==
    IF s = <<>> THEN <<>>
    ELSE IF ~IsControl(Head(s)) /\ ~IsWhitespace(Head(s))
         THEN <<Head(s)>> \o FilterChars(Tail(s))
         ELSE FilterChars(Tail(s))

\* str::to_lowercase
ToLowercase(s) == [i \in 1..Len(s) |-> LowerChar(s[i])]

\* SymSpell::normalize_word
NormalizeWord(word) == ToLowercase(FilterChars(Nfkd(word)))

\* String's Ord: lexicographic on code points, a proper prefix first
RECURSIVE StrLess(_, _)
StrLess(a, b) ==
    IF b = <<>> THEN FALSE
    ELSE IF a = <<>> THEN TRUE
    ELSE IF Head(a) # Head(b) THEN Head(a) < Head(b)
    ELSE StrLess(Tail(a), Tail(b))

Min2(x, y) == IF x <= y THEN x ELSE y

----------------------------------------------------------------------------
(* symspell.rs                                                             *)

WordEntry(canonical, frequency) == [canonical |-> canonical, frequency |-> frequency]

Suggestion(term, distance, frequency) ==
    [term |-> term, distance |-> distance, frequency |-> frequency]

\* Suggestion's Ord without the frequency
SuggestionLessNoFreq(a, b) ==
    IF a.distance # b.distance THEN a.distance < b.distance
    ELSE StrLess(a.term, b.term)

\* impl Ord for Suggestion: a sorts strictly before b
SuggestionLess(a, b) ==
    IF a.distance # b.distance THEN a.distance < b.distance
    ELSE IF a.frequency # b.frequency THEN b.frequency < a.frequency
    ELSE StrLess(a.term, b.term)

\* SymSpell::new
SymSpellNew(max_edit_distance) ==
    [deletes |-> <<>>, words |-> <<>>, max_edit_distance |-> max_edit_distance]

RemoveAt(w, i) == [j \in 1..(Len(w) - 1) |-> IF j < i THEN w[j] ELSE w[j + 1]]

\* SymSpell::generate_deletes (the Vec as the set of its elements)
GenerateDeletes(word) == {RemoveAt(word, i) : i \in 1..Len(word)}

\* get_deletes with `if !delete.is_empty()` moved above the insert: the empty
\* string is never a delete-variant
RECURSIVE GetDeletesLoopNoEmpty(_, _, _, _)
GetDeletesLoopNoEmpty(left, queue, processed, deletes) ==
    IF left = 0 THEN deletes
    ELSE LET items == queue \ processed
             emitted == UNION {GenerateDeletes(item) : item \in items}
         IN  GetDeletesLoopNoEmpty(left - 1,
                                   {d \in emitted : d # <<>>},
                                   processed \cup items,
                                   deletes \cup {d \in emitted : d # <<>>})

\* the for-loop of SymSpell::get_deletes: `left` iterations to go
RECURSIVE GetDeletesLoop(_, _, _, _)
GetDeletesLoop(left, queue, processed, deletes) ==
    IF left = 0 THEN deletes
    ELSE LET items == queue \ processed
             emitted == UNION {GenerateDeletes(item) : item \in items}
         IN  GetDeletesLoop(left - 1,
                            {d \in emitted : d # <<>>},
                            processed \cup items,
                            deletes \cup emitted)

\* SymSpell::get_deletes
GetDeletes(word, edit_distance) ==
    IF edit_distance = 0 THEN {}
    ELSE GetDeletesLoop(edit_distance, {word}, {}, {})

\* the rows of edit_distance with the substitution cost inverted (1 where
\* the code points are equal)
RECURSIVE EditRowInverted(_, _, _)
EditRowInverted(s1, s2, i) ==
    IF i = 0 THEN [j \in 1..(Len(s2) + 1) |-> j - 1]
    ELSE LET prev_row == EditRowInverted(s1, s2, i - 1)
             curr_row[j \in 1..(Len(s2) + 1)] ==
                 IF j = 1 THEN i
                 ELSE LET cost == IF s1[i] = s2[j - 1] THEN 1 ELSE 0
                      IN  Min2(Min2(prev_row[j] + 1, curr_row[j - 1] + 1),
                               prev_row[j - 1] + cost)
         IN  curr_row

\* SymSpell::edit_distance: rows of the two-row table; Row(i)[j + 1] is the
\* cell of column j after the i-th outer iteration
RECURSIVE EditRow(_, _, _)
EditRow(s1, s2, i) ==
    IF i = 0 THEN [j \in 1..(Len(s2) + 1) |-> j - 1]
    ELSE LET prev_row == EditRow(s1, s2, i - 1)
             curr_row[j \in 1..(Len(s2) + 1)] ==
                 IF j = 1 THEN i
                 ELSE LET cost == IF s1[i] = s2[j - 1] THEN 0 ELSE 1
                      IN  Min2(Min2(prev_row[j] + 1, curr_row[j - 1] + 1),
                               prev_row[j - 1] + cost)
         IN  curr_row

EditDistance(s1, s2) ==
    IF Len(s1) = 0 THEN Len(s2)
    ELSE IF Len(s2) = 0 THEN Len(s1)
    ELSE EditRow(s1, s2, Len(s1))[Len(s2) + 1]

\* SymSpell::add_word
\* add_word with a HashMap entry that is replaced only by a higher frequency
AddWordKeepHigher(s, normalized, canonical, frequency) ==
    LET dels == GetDeletes(normalized, s.max_edit_distance)
        kept == IF normalized \in DOMAIN s.words
                   /\ s.words[normalized].frequency >= frequency
                THEN s.words[normalized]
                ELSE WordEntry(canonical, frequency)
    IN  [s EXCEPT
            !.words = (normalized :> kept) @@ s.words,
            !.deletes = [d \in (DOMAIN s.deletes) \cup dels |->
                            (IF d \in DOMAIN s.deletes THEN s.deletes[d] ELSE {})
                            \cup (IF d \in dels THEN {normalized} ELSE {})]]

AddWord(s, normalized, canonical, frequency) ==
    LET dels == GetDeletes(normalized, s.max_edit_distance)
    IN  [s EXCEPT
            !.words = (normalized :> WordEntry(canonical, frequency)) @@ s.words,
            !.deletes = [d \in (DOMAIN s.deletes) \cup dels |->
                            (IF d \in DOMAIN s.deletes THEN s.deletes[d] ELSE {})
                            \cup (IF d \in dels THEN {normalized} ELSE {})]]

\* SymSpell::contains
Contains(s, word) == NormalizeWord(word) \in DOMAIN s.words

\* SymSpell::get_frequency
GetFrequency(s, word) ==
    LET normalized == NormalizeWord(word)
    IN  IF normalized \in DOMAIN s.words
        THEN Some(s.words[normalized].frequency)
        ELSE None

\* Vec::sort with Suggestion's Ord, on the suggestions of the keys in `keys`
RECURSIVE SortSuggestions(_, _)
SortSuggestions(keys, sug) ==
    IF keys = {} THEN <<>>
    ELSE LET k == CHOOSE x \in keys : \A y \in keys : ~SuggestionLess(sug[y], sug[x])
         IN  <<sug[k]>> \o SortSuggestions(keys \ {k}, sug)

\* Vec::truncate
Truncate(v, n) == IF Len(v) <= n THEN v ELSE SubSeq(v, 1, n)

\* suggestions without the exact-match block of symspell.rs:155-158
SuggestionsNoExact(s, word, max_suggestions) ==
    LET normalized == NormalizeWord(word)
        D == s.max_edit_distance
        input_deletes == GetDeletes(normalized, D)
        Via(d) == IF d \in DOMAIN s.deletes
                  THEN {c \in s.deletes[d] :
                           EditDistance(normalized, c) <= D /\ c \in DOMAIN s.words}
                  ELSE {}
        shorter == {d \in input_deletes :
                       d \in DOMAIN s.words /\ EditDistance(normalized, d) <= D}
        seen == (shorter \cup UNION {Via(d) : d \in input_deletes} \cup Via(normalized))
                    \ {normalized}
        sug == [k \in seen |->
                   Suggestion(s.words[k].canonical, EditDistance(normalized, k),
                              s.words[k].frequency)]
    IN  Truncate(SortSuggestions(seen, sug), max_suggestions)

\* SymSpell::suggestions.  `seen` ends as the set of keys pushed; a key is
\* pushed once, with distance 0 for the exact hit and edit_distance(..)
\* otherwise, whatever the iteration order of the hash sets.
Suggestions(s, word, max_suggestions) ==
    LET normalized == NormalizeWord(word)
        D == s.max_edit_distance
        exact == IF normalized \in DOMAIN s.words THEN {normalized} ELSE {}
        input_deletes == GetDeletes(normalized, D)
        Via(d) == IF d \in DOMAIN s.deletes
                  THEN {c \in s.deletes[d] :
                           EditDistance(normalized, c) <= D /\ c \in DOMAIN s.words}
                  ELSE {}
        shorter == {d \in input_deletes :
                       d \in DOMAIN s.words /\ EditDistance(normalized, d) <= D}
        probed == UNION {Via(d) : d \in input_deletes}
        direct == Via(normalized)
        seen == exact \cup shorter \cup probed \cup direct
        sug == [k \in seen |->
                   Suggestion(s.words[k].canonical,
                              IF k \in exact THEN 0 ELSE EditDistance(normalized, k),
                              s.words[k].frequency)]
    IN  Truncate(SortSuggestions(seen, sug), max_suggestions)

\* SymSpell::load_dictionary, called at lib.rs:81: for each (canonical,
\* frequency) tuple, k = normalize(canonical); an empty k is skipped;
\* otherwise the row is inserted with add_word, so that of several rows
\* with one key the most recently inserted one stays ("the source takes the
\* most-recently-inserted row's value")
RECURSIVE LoadDictionary(_, _)
LoadDictionary(s, rows) ==
    IF rows = <<>> THEN s
    ELSE LET canonical == Head(rows)[1]
             frequency == Head(rows)[2]
             k == NormalizeWord(canonical)
             next == IF k = <<>> THEN s
                     ELSE AddWord(s, k, canonical, frequency)
         IN  LoadDictionary(next, Tail(rows))

----------------------------------------------------------------------------
(* guards.rs                                                               *)

IsSymbolChar(c) == IsAsciiUpper(c) \/ (c >= 48 /\ c <= 57)

\* w[lo..hi] is a run of [A-Z0-9], of \d
AllSymbolChars(w, lo, hi) == \A i \in lo..hi : IsSymbolChar(w[i])
AllDigits(w, lo, hi) == \A i \in lo..hi : IsDigit(w[i])

\* SYMBOL_REGEX ^[A-Z][A-Z0-9]{1,}[\-]?[A-Z0-9]+$ : w[1] in A-Z, w[2..p] a
\* run of one or more, an optional hyphen, and a run of one or more to the end
SymbolPattern(w) ==
    /\ Len(w) >= 3
    /\ IsAsciiUpper(w[1])
    /\ \E p \in 2..(Len(w) - 1) :
          /\ AllSymbolChars(w, 2, p)
          /\ \/ AllSymbolChars(w, p + 1, Len(w))
             \/ /\ w[p + 1] = 45
                /\ p + 2 <= Len(w)
                /\ AllSymbolChars(w, p + 2, Len(w))

\* CAS_REGEX ^\d{2,7}-\d{2}-\d$
CasPattern(w) ==
    \E n \in 2..7 :
        /\ Len(w) = n + 5
        /\ AllDigits(w, 1, n)
        /\ w[n + 1] = 45
        /\ AllDigits(w, n + 2, n + 3)
        /\ w[n + 4] = 45
        /\ IsDigit(w[n + 5])

\* Guards::new; protected_set and protected_patterns are the fields that
\* load_protected and add_pattern (called at lib.rs:89 and lib.rs:98) fill
GuardsNew ==
    [symbols_set |-> {}, cas_set |-> {}, skus_set |-> {}, species_set |-> {},
     protected_set |-> {}, protected_patterns |-> <<>>]

\* Guards::is_protected
IsProtected(g, word) ==
    LET lower == ToLowercase(word)
    IN  \/ word \in g.symbols_set \/ lower \in g.symbols_set
        \/ word \in g.cas_set
        \/ word \in g.skus_set \/ lower \in g.skus_set
        \/ word \in g.species_set \/ lower \in g.species_set
        \/ SymbolPattern(word)
        \/ CasPattern(word)

\* Guards::is_protected_normalized
IsProtectedNormalized(g, word, normalized) ==
    IsProtected(g, word) \/ IsProtected(g, normalized)

\* str::trim
RECURSIVE TrimStart(_)
TrimStart(s) ==
    IF s # <<>> /\ IsWhitespace(Head(s)) THEN TrimStart(Tail(s)) ELSE s

RECURSIVE TrimEnd(_)
TrimEnd(s) ==
    IF s # <<>> /\ IsWhitespace(s[Len(s)])
    THEN TrimEnd(SubSeq(s, 1, Len(s) - 1))
    ELSE s

Trim(s) == TrimEnd(TrimStart(s))

\* trimmed.replace('-', "")
RECURSIVE RemoveHyphens(_)
RemoveHyphens(s) ==
    IF s = <<>> THEN <<>>
    ELSE IF Head(s) = 45 THEN RemoveHyphens(Tail(s))
    ELSE <<Head(s)>> \o RemoveHyphens(Tail(s))

\* guards.rs:47, 65, 74, 84: !trimmed.is_empty() && !trimmed.starts_with('#')
IsTermLine(trimmed) == trimmed # <<>> /\ trimmed[1] # 35

\* Guards::load_symbols on the lines of content
RECURSIVE LoadSymbols(_, _)
LoadSymbols(g, lines) ==
    IF lines = <<>> THEN g
    ELSE LET trimmed == Trim(Head(lines))
             no_hyphen == RemoveHyphens(trimmed)
             added == {trimmed, ToLowercase(trimmed)}
                      \cup (IF 45 \in {trimmed[i] : i \in 1..Len(trimmed)}
                            THEN {no_hyphen, ToLowercase(no_hyphen)}
                            ELSE {})
             next == IF IsTermLine(trimmed)
                     THEN [g EXCEPT !.symbols_set = @ \cup added]
                     ELSE g
         IN  LoadSymbols(next, Tail(lines))

\* Guards::load_cas
RECURSIVE LoadCas(_, _)
LoadCas(g, lines) ==
    IF lines = <<>> THEN g
    ELSE LET trimmed == Trim(Head(lines))
             next == IF IsTermLine(trimmed)
                     THEN [g EXCEPT !.cas_set = @ \cup {trimmed}]
                     ELSE g
         IN  LoadCas(next, Tail(lines))

\* Guards::load_skus
RECURSIVE LoadSkus(_, _)
LoadSkus(g, lines) ==
    IF lines = <<>> THEN g
    ELSE LET trimmed == Trim(Head(lines))
             next == IF IsTermLine(trimmed)
                     THEN [g EXCEPT !.skus_set = @ \cup {trimmed, ToLowercase(trimmed)}]
                     ELSE g
         IN  LoadSkus(next, Tail(lines))

\* Guards::load_species
RECURSIVE LoadSpecies(_, _)
LoadSpecies(g, lines) ==
    IF lines = <<>> THEN g
    ELSE LET trimmed == Trim(Head(lines))
             next == IF IsTermLine(trimmed)
                     THEN [g EXCEPT !.species_set = @ \cup {trimmed, ToLowercase(trimmed)}]
                     ELSE g
         IN  LoadSpecies(next, Tail(lines))

\* Guards::load_protected, called at lib.rs:89: each line that is non-empty
\* and not '#'-prefixed after trimming contributes the trimmed line, its
\* lowercase and its normalized form
RECURSIVE LoadProtected(_, _)
LoadProtected(g, lines) ==
    IF lines = <<>> THEN g
    ELSE LET trimmed == Trim(Head(lines))
             next == IF trimmed # <<>> /\ trimmed[1] # 35
                     THEN [g EXCEPT !.protected_set =
                              @ \cup {trimmed, ToLowercase(trimmed),
                                      NormalizeWord(trimmed)}]
                     ELSE g
         IN  LoadProtected(next, Tail(lines))

\* Regex::new on a pattern source: the sources the model offers are the CAS
\* pattern, which compiles, and "(", which does not
PatternCompiles(pattern) == pattern # "("

\* Guards::add_pattern, called at lib.rs:98
AddPattern(g, pattern) ==
    IF PatternCompiles(pattern)
    THEN Ok([g EXCEPT !.protected_patterns = Append(@, pattern)])
    ELSE Err("InvalidPattern")

----------------------------------------------------------------------------
(* lib.rs                                                                  *)

\* CheckerState::new
CheckerStateNew ==
    [symspell |-> None, guards |-> GuardsNew, loaded |-> FALSE,
     frequency_threshold |-> 10, loaded_at |-> None, dictionary_size |-> 0,
     edit_distance |-> 1]

\* str::split_whitespace: `cur` is the part being read
RECURSIVE SplitFrom(_, _)
SplitFrom(line, cur) ==
    IF line = <<>> THEN (IF cur = <<>> THEN <<>> ELSE <<cur>>)
    ELSE IF IsWhitespace(Head(line))
         THEN (IF cur = <<>> THEN <<>> ELSE <<cur>>) \o SplitFrom(Tail(line), <<>>)
         ELSE SplitFrom(Tail(line), Append(cur, Head(line)))

SplitWhitespace(line) == SplitFrom(line, <<>>)

RECURSIVE DigitsValue(_, _)
DigitsValue(s, acc) ==
    IF s = <<>> THEN acc ELSE DigitsValue(Tail(s), acc * 10 + (Head(s) - 48))

\* str::parse::<u64>: ASCII digits, with an optional leading '+'
ParseU64(s) ==
    LET digits == IF s # <<>> /\ s[1] = 43 THEN Tail(s) ELSE s
    IN  IF digits # <<>> /\ \A i \in 1..Len(digits) : digits[i] >= 48 /\ digits[i] <= 57
        THEN Ok(DigitsValue(digits, 0))
        ELSE Err("ParseIntError")

\* lib.rs:69-77: the (term, frequency) tuples of the dictionary file
RECURSIVE ParseWords(_)
ParseWords(lines) ==
    IF lines = <<>> THEN <<>>
    ELSE LET parts == SplitWhitespace(Head(lines))
             row == IF Len(parts) = 2 /\ ParseU64(parts[2]).ok
                    THEN <<<<parts[1], ParseU64(parts[2]).val>>>>
                    ELSE <<>>
         IN  row \o ParseWords(Tail(lines))

\* lib.rs:61-63: a value that does not convert to usize counts as absent
TryConvertUsize(v) == IF v >= 0 THEN Some(v) ELSE None

\* lib.rs:94-101: the first pattern that does not compile ends the load
RECURSIVE AddPatterns(_, _)
AddPatterns(g, patterns) ==
    IF patterns = <<>> THEN Ok(g)
    ELSE LET r == AddPattern(g, Head(patterns))
         IN  IF r.ok THEN AddPatterns(r.val, Tail(patterns)) ELSE Err("ArgError")

\* lib.rs:113-120: the fields written under the write lock
Publish(st, symspell, guards, frequency_threshold, loaded_at, dictionary_size, edit_dist) ==
    [st EXCEPT !.symspell = Some(symspell),
               !.guards = guards,
               !.frequency_threshold = frequency_threshold,
               !.loaded = TRUE,
               !.loaded_at = loaded_at,
               !.dictionary_size = dictionary_size,
               !.edit_distance = edit_dist]

\* load_full taking the write lock before the patterns are compiled: a
\* pattern that does not compile leaves the new index published
LoadFullEarlyWrite(st, config, t) ==
    IF config.dictionary_path = None
    THEN [result |-> Err("ArgError"), state |-> st]
    ELSE IF ~Unwrap(config.dictionary_path).readable
    THEN [result |-> Err("RuntimeError"), state |-> st]
    ELSE
    LET edit_dist == IF config.edit_distance = None THEN 1
                     ELSE UnwrapOr(TryConvertUsize(Unwrap(config.edit_distance)), 1)
    IN  IF edit_dist > 2
        THEN [result |-> Err("ArgError"), state |-> st]
        ELSE
        LET words == ParseWords(Unwrap(config.dictionary_path).lines)
            symspell == LoadDictionary(SymSpellNew(edit_dist), words)
            guards == IF config.protected_patterns = None THEN Ok(GuardsNew)
                      ELSE AddPatterns(GuardsNew, Unwrap(config.protected_patterns))
            written == Publish(st, symspell, IF guards.ok THEN guards.val ELSE GuardsNew,
                               UnwrapOr(config.frequency_threshold, 10), Some(t),
                               Len(words), edit_dist)
        IN  IF guards.ok
            THEN [result |-> Ok("nil"), state |-> written]
            ELSE [result |-> Err("ArgError"), state |-> written]

\* Checker::load_full on state st at time t: the Result and the state after
LoadFull(st, config, t) ==
    IF config.dictionary_path = None
    THEN [result |-> Err("ArgError"), state |-> st]
    ELSE IF ~Unwrap(config.dictionary_path).readable
    THEN [result |-> Err("RuntimeError"), state |-> st]
    ELSE
    LET content == Unwrap(config.dictionary_path).lines
        edit_dist == IF config.edit_distance = None THEN 1
                     ELSE UnwrapOr(TryConvertUsize(Unwrap(config.edit_distance)), 1)
    IN  IF edit_dist > 2
        THEN [result |-> Err("ArgError"), state |-> st]
        ELSE
        LET words == ParseWords(content)
            dictionary_size == Len(words)
            symspell == LoadDictionary(SymSpellNew(edit_dist), words)
            guards0 == IF config.protected_path # None
                          /\ Unwrap(config.protected_path).readable
                       THEN LoadProtected(GuardsNew, Unwrap(config.protected_path).lines)
                       ELSE GuardsNew
            guards == IF config.protected_patterns = None THEN Ok(guards0)
                      ELSE AddPatterns(guards0, Unwrap(config.protected_patterns))
        IN  IF ~guards.ok
            THEN [result |-> Err("ArgError"), state |-> st]
            ELSE
            LET frequency_threshold == UnwrapOr(config.frequency_threshold, 10)
                loaded_at == Some(t)
            IN  [result |-> Ok("nil"),
                 state |-> Publish(st, symspell, guards.val, frequency_threshold,
                                   loaded_at, dictionary_size, edit_dist)]

\* Checker::suggest
Suggest(st, word, max) ==
    LET max_suggestions == UnwrapOr(max, 5)
    IN  IF ~st.loaded THEN Err("RuntimeError")
        ELSE IF st.symspell # None
        THEN Ok(Suggestions(Unwrap(st.symspell), word, max_suggestions))
        ELSE Err("RuntimeError")

\* Checker::correct (correct?)
Correct(st, word) ==
    IF ~st.loaded THEN Err("RuntimeError")
    ELSE IF st.symspell # None
    THEN Ok(Contains(Unwrap(st.symspell), word))
    ELSE Err("RuntimeError")

\* lib.rs:198-205, 262-267: the frequency gate
PassesThreshold(original_freq, suggestion, frequency_threshold) ==
    IF original_freq = None
    THEN suggestion.frequency >= frequency_threshold
    ELSE suggestion.frequency >= frequency_threshold * Unwrap(original_freq)

\* lib.rs:195-211: the first suggestion, from index i on, at distance <= 1
\* that passes the gate; `word` if there is none
RECURSIVE FirstPassing(_, _, _, _, _)
FirstPassing(suggestions, i, original_freq, frequency_threshold, word) ==
    IF i > Len(suggestions) THEN word
    ELSE IF suggestions[i].distance <= 1
            /\ PassesThreshold(original_freq, suggestions[i], frequency_threshold)
         THEN suggestions[i].term
         ELSE FirstPassing(suggestions, i + 1, original_freq, frequency_threshold, word)

\* correct_if_unknown without the guard check of lib.rs:176-181
CorrectIfUnknownNoGuard(st, word, use_guard) ==
    IF ~st.loaded THEN Err("RuntimeError")
    ELSE IF st.symspell # None
    THEN LET symspell == Unwrap(st.symspell)
             suggestions == Suggestions(symspell, word, 5)
         IN  IF suggestions # <<>> /\ suggestions[1].distance = 0
             THEN Ok(word)
             ELSE Ok(FirstPassing(suggestions, 1, GetFrequency(symspell, word),
                                  st.frequency_threshold, word))
    ELSE Err("RuntimeError")

\* correct_if_unknown without the exact-match return of lib.rs:187-189
CorrectIfUnknownNoExact(st, word, use_guard) ==
    IF ~st.loaded THEN Err("RuntimeError")
    ELSE IF UnwrapOr(use_guard, FALSE)
            /\ IsProtectedNormalized(st.guards, word, NormalizeWord(word))
    THEN Ok(word)
    ELSE IF st.symspell # None
    THEN LET symspell == Unwrap(st.symspell)
         IN  Ok(FirstPassing(Suggestions(symspell, word, 5), 1,
                             GetFrequency(symspell, word), st.frequency_threshold, word))
    ELSE Err("RuntimeError")

\* Checker::correct_if_unknown
CorrectIfUnknown(st, word, use_guard) ==
    IF ~st.loaded THEN Err("RuntimeError")
    ELSE IF UnwrapOr(use_guard, FALSE)
            /\ IsProtectedNormalized(st.guards, word, NormalizeWord(word))
    THEN Ok(word)
    ELSE IF st.symspell # None
    THEN LET symspell == Unwrap(st.symspell)
             suggestions == Suggestions(symspell, word, 5)
         IN  IF suggestions # <<>> /\ suggestions[1].distance = 0
             THEN Ok(word)
             ELSE Ok(FirstPassing(suggestions, 1, GetFrequency(symspell, word),
                                  st.frequency_threshold, word))
    ELSE Err("RuntimeError")

\* lib.rs:259-274: the batch loop's search, which starts from
\* corrected = word and breaks at the first suggestion that passes
RECURSIVE BatchCorrected(_, _, _, _, _)
BatchCorrected(suggestions, i, original_freq, frequency_threshold, corrected) ==
    IF i > Len(suggestions) THEN corrected
    ELSE IF suggestions[i].distance <= 1
         THEN LET passes_threshold ==
                      IF original_freq = None
                      THEN suggestions[i].frequency >= frequency_threshold
                      ELSE suggestions[i].frequency
                               >= frequency_threshold * Unwrap(original_freq)
              IN  IF passes_threshold THEN suggestions[i].term
                  ELSE BatchCorrected(suggestions, i + 1, original_freq,
                                      frequency_threshold, corrected)
         ELSE BatchCorrected(suggestions, i + 1, original_freq,
                             frequency_threshold, corrected)

\* the batch loop without the guard check of lib.rs:238-244
BatchTokenNoGuard(st, symspell, word, use_guard) ==
    LET suggestions == Suggestions(symspell, word, 5)
    IN  IF suggestions # <<>> /\ suggestions[1].distance = 0
        THEN word
        ELSE BatchCorrected(suggestions, 1, GetFrequency(symspell, word),
                            st.frequency_threshold, word)

\* lib.rs:234-277: one iteration of the batch loop, the value pushed
BatchToken(st, symspell, word, use_guard) ==
    IF use_guard /\ IsProtectedNormalized(st.guards, word, NormalizeWord(word))
    THEN word
    ELSE LET suggestions == Suggestions(symspell, word, 5)
         IN  IF suggestions # <<>> /\ suggestions[1].distance = 0
             THEN word
             ELSE BatchCorrected(suggestions, 1, GetFrequency(symspell, word),
                                 st.frequency_threshold, word)

\* Checker::correct_tokens
CorrectTokens(st, tokens, use_guard) ==
    LET guard == UnwrapOr(use_guard, FALSE)
    IN  IF ~st.loaded THEN Err("RuntimeError")
        ELSE IF st.symspell # None
        THEN Ok([i \in 1..Len(tokens) |->
                    BatchToken(st, Unwrap(st.symspell), tokens[i], guard)])
        ELSE Err("RuntimeError")

\* Checker::stats: the keys set in the returned hash
Stats(st) ==
    IF ~st.loaded THEN [loaded |-> FALSE]
    ELSE [loaded |-> TRUE, dictionary_size |-> st.dictionary_size,
          edit_distance |-> st.edit_distance, loaded_at |-> st.loaded_at]

\* Checker::healthcheck
Healthcheck(st) ==
    IF ~st.loaded THEN Err("RuntimeError")
    ELSE IF st.symspell = None THEN Err("RuntimeError")
    ELSE Ok("nil")

----------------------------------------------------------------------------
(* Inputs                                                                  *)

\* bounds of the model
MaxAdds == 3        \* add_word calls on the directly used SymSpell
MaxQueryLen == 3    \* length of the queries put to it
MaxRows == 2        \* lines of a generated dictionary file
MaxTokenLen == 2    \* length of the generated tokens
MaxBatch == 2       \* tokens in a correct_tokens batch
MaxLoads == 2       \* load attempts in a behaviour

\* all sequences over alphabet of length 0..n
RECURSIVE SeqsUpTo(_, _)
SeqsUpTo(alphabet, n) ==
    IF n = 0 THEN {<<>>}
    ELSE LET shorter == SeqsUpTo(alphabet, n - 1)
         IN  shorter \cup {Append(w, c) : w \in shorter, c \in alphabet}

\* decimal digits of n, as a string
RECURSIVE Decimal(_)
Decimal(n) == IF n < 10 THEN <<48 + n>> ELSE Append(Decimal(n \div 10), 48 + (n % 10))

DictLine(term, frequency) == term \o <<32>> \o Decimal(frequency)

File(lines) == [readable |-> TRUE, lines |-> lines]
Unreadable == [readable |-> FALSE, lines |-> <<>>]

s_hello == <<104, 101, 108, 108, 111>>
s_hell == <<104, 101, 108, 108>>
s_help == <<104, 101, 108, 112>>
s_helo == <<104, 101, 108, 111>>
s_the == <<116, 104, 101>>
s_teh == <<116, 101, 104>>
s_a == <<97>>
s_b == <<98>>
s_ab == <<97, 98>>
s_abb == <<97, 98, 98>>
s_Ab == <<65, 98>>
s_AB == <<65, 66>>
s_ABA == <<65, 66, 65>>
\* "7732-18-5"
s_cas == <<55, 55, 51, 50, 45, 49, 56, 45, 53>>
\* U+FF21 then "b"
s_fullwidth == <<65313, 98>>
\* "a b"
s_a_b == <<97, 32, 98>>
\* " \t"
s_blank == <<32, 9>>

\* spec S1 and S4
HelloFile == File(<<DictLine(s_hello, 1000), DictLine(s_hell, 500), DictLine(s_help, 750)>>)
TheFile == File(<<DictLine(s_the, 1000000), DictLine(s_teh, 1)>>)

Config(dictionary_path, edit_distance, protected_path, protected_patterns, frequency_threshold) ==
    [dictionary_path |-> dictionary_path, edit_distance |-> edit_distance,
     protected_path |-> protected_path, protected_patterns |-> protected_patterns,
     frequency_threshold |-> frequency_threshold]

----------------------------------------------------------------------------
(* SpecSym: a SymSpell value built with add_word and queried with          *)
(* suggestions, as symspell.rs mod tests does                              *)

SymWords == {s_a, <<65>>, s_b, s_ab, <<98, 97>>, s_abb, <<>>}
SymFrequencies == {5, 50}
SymQueries == (SeqsUpTo({97, 98}, MaxQueryLen) \ {<<>>}) \cup {<<>>, s_AB, s_a_b, s_blank}
SymMax == {1, MaxAdds}

NoCall == [op |-> "none"]

\* no row has been passed to add_word
NoRows == [first_highest |-> <<>>, last |-> <<>>]

\* the values of the variables that a specification does not use
GuardsUnused == grd = GuardsNew /\ glines = <<>>
LockUnused == lock = [readers |-> {}, writer |-> FALSE] /\ rd = <<>> /\ wr = [pc |-> "idle"]

\* the caller is sequential: it makes a call when it holds no result, and
\* drops the result before the next call
InitSym ==
    /\ sym \in {SymSpellNew(D) : D \in 1..2}
    /\ sret = [op |-> "none", adds |-> 0]
    /\ inserted = NoRows
    /\ GuardsUnused
    /\ LockUnused
    /\ state = CheckerStateNew
    /\ published = CheckerStateNew
    /\ now = 0
    /\ ret = NoCall

\* the history after the row (canonical, frequency) with key k
RecordRow(h, k, canonical, frequency) ==
    [first_highest |->
         IF k \in DOMAIN h.first_highest /\ h.first_highest[k].frequency >= frequency
         THEN h.first_highest
         ELSE (k :> WordEntry(canonical, frequency)) @@ h.first_highest,
     last |-> (k :> WordEntry(canonical, frequency)) @@ h.last]

\* symspell.add_word(normalize(canonical), canonical, frequency)
SymAddWord ==
    /\ sret.op = "none"
    /\ sret.adds < MaxAdds
    /\ \E canonical \in SymWords, frequency \in SymFrequencies :
          /\ sym' = AddWord(sym, NormalizeWord(canonical), canonical, frequency)
          /\ inserted' = RecordRow(inserted, NormalizeWord(canonical), canonical, frequency)
          /\ sret' = [op |-> "none", adds |-> sret.adds + 1]
    /\ UNCHANGED <<checkerVars, guardVars, lockVars>>

\* symspell.suggestions(word, max)
SymSuggestions ==
    /\ sret.op = "none"
    /\ \E word \in SymQueries, max \in SymMax :
          sret' = [op |-> "suggestions", adds |-> sret.adds, word |-> word,
                   max |-> max, out |-> Suggestions(sym, word, max)]
    /\ UNCHANGED <<sym, inserted, checkerVars, guardVars, lockVars>>

\* the Vec<Suggestion> goes out of scope
SymDrop ==
    /\ sret.op # "none"
    /\ sret' = [op |-> "none", adds |-> sret.adds]
    /\ UNCHANGED <<sym, inserted, checkerVars, guardVars, lockVars>>

NextSym == SymAddWord \/ SymSuggestions \/ SymDrop

SpecSym == InitSym /\ [][NextSym]_vars

----------------------------------------------------------------------------
(* The Checker's callers.  A caller is sequential: it makes a call when it *)
(* holds no result and drops the result before its next call.              *)

CasSource == "^\\d{2,7}-\\d{2}-\\d$"

CallSuggest(words, maxes) ==
    /\ ret = NoCall
    /\ \E word \in words, max \in maxes :
          ret' = [op |-> "suggest", word |-> word, max |-> max,
                  out |-> Suggest(state, word, max)]
    /\ UNCHANGED <<state, published, now, symVars, guardVars, lockVars>>

CallCorrect(words) ==
    /\ ret = NoCall
    /\ \E word \in words :
          ret' = [op |-> "correct", word |-> word, out |-> Correct(state, word)]
    /\ UNCHANGED <<state, published, now, symVars, guardVars, lockVars>>

CallCorrectIfUnknown(words) ==
    /\ ret = NoCall
    /\ \E word \in words, use_guard \in {None, Some(FALSE), Some(TRUE)} :
          ret' = [op |-> "correct_if_unknown", word |-> word, use_guard |-> use_guard,
                  out |-> CorrectIfUnknown(state, word, use_guard)]
    /\ UNCHANGED <<state, published, now, symVars, guardVars, lockVars>>

CallCorrectTokens(batches) ==
    /\ ret = NoCall
    /\ \E tokens \in batches, use_guard \in {None, Some(FALSE), Some(TRUE)} :
          ret' = [op |-> "correct_tokens", tokens |-> tokens, use_guard |-> use_guard,
                  out |-> CorrectTokens(state, tokens, use_guard)]
    /\ UNCHANGED <<state, published, now, symVars, guardVars, lockVars>>

CallStats ==
    /\ ret = NoCall
    /\ ret' = [op |-> "stats", out |-> Stats(state)]
    /\ UNCHANGED <<state, published, now, symVars, guardVars, lockVars>>

CallHealthcheck ==
    /\ ret = NoCall
    /\ ret' = [op |-> "healthcheck", out |-> Healthcheck(state)]
    /\ UNCHANGED <<state, published, now, symVars, guardVars, lockVars>>

\* the caller drops the returned value
Drop ==
    /\ ret # NoCall
    /\ ret' = NoCall
    /\ UNCHANGED <<state, published, now, symVars, guardVars, lockVars>>

----------------------------------------------------------------------------
(* SpecQuery: the query operations on every snapshot that one load! of a   *)
(* generated configuration publishes, and on the unloaded Checker          *)

GenLines == {DictLine(s_a, 5000), DictLine(s_ab, 50), DictLine(s_Ab, 5), DictLine(s_abb, 50)}
GenFiles == {File(lines) : lines \in SeqsUpTo(GenLines, MaxRows)}

\* seven words within two edits of "ab": more than the 5 suggestions that
\* correct_if_unknown asks for
CrowdedFile ==
    File(<<DictLine(s_a, 5000), DictLine(s_b, 5), DictLine(s_ab, 50),
           DictLine(<<98, 98>>, 50), DictLine(<<97, 97, 98>>, 7), DictLine(s_abb, 50),
           DictLine(<<98, 97>>, 60)>>)

QueryConfigs ==
    {Config(Some(f), d, None, None, t) :
        f \in GenFiles, d \in {None, Some(2)}, t \in {None, Some(100)}}
    \cup {Config(Some(HelloFile), Some(2), None, None, Some(10)),
          Config(Some(TheFile), None, None, None, Some(10)),
          Config(Some(TheFile), Some(2), None, None, Some(10)),
          Config(Some(CrowdedFile), Some(2), None, None, None),
          Config(Some(CrowdedFile), None, None, None, Some(60)),
          Config(Some(File(<<DictLine(s_a, 5000), DictLine(s_ab, 50)>>)), Some(0),
                 None, None, None)}

QueryStates ==
    {CheckerStateNew} \cup {LoadFull(CheckerStateNew, c, 1).state : c \in QueryConfigs}

QueryTokens ==
    SeqsUpTo({97, 98, 65}, MaxTokenLen)
    \cup {s_helo, s_teh, s_the, s_cas, s_ABA, s_abb, s_fullwidth, s_a_b, s_blank}

QueryBatches == SeqsUpTo({s_abb, s_ABA, s_AB, s_blank}, MaxBatch)

InitQuery ==
    /\ state \in QueryStates
    /\ published = state
    /\ now = 1
    /\ ret = NoCall
    /\ sym = SymSpellNew(1)
    /\ sret = [op |-> "none", adds |-> 0]
    /\ inserted = NoRows
    /\ GuardsUnused
    /\ LockUnused

QSuggest == CallSuggest(QueryTokens, {None, Some(0), Some(3)})
QCorrect == CallCorrect(QueryTokens)
QCorrectIfUnknown == CallCorrectIfUnknown(QueryTokens)
QCorrectTokens == CallCorrectTokens(QueryBatches)

NextQuery == QSuggest \/ QCorrect \/ QCorrectIfUnknown \/ QCorrectTokens \/ Drop

SpecQuery == InitQuery /\ [][NextQuery]_vars

----------------------------------------------------------------------------
(* Spec: load attempts interleaved with queries                            *)

\* a dictionary file with lines that lib.rs:70-77 skips
MessyFile ==
    File(<<DictLine(s_ab, 50), s_ab, s_a \o <<32, 120, 53>>, s_b \o <<32, 43, 53>>,
           <<32, 9>> \o s_a \o <<32, 32>> \o Decimal(5000) \o <<32>>,
           s_a \o <<32>> \o s_b \o <<32>> \o Decimal(7)>>)

\* "  CDK10 ", "# c", ""
TermsFile ==
    File(<<<<32, 32, 67, 68, 75, 49, 48, 32>>, <<35, 32, 99>>, <<>>>>)

LoadConfigs ==
    {Config(f, d, p, r, t) :
        f \in {None, Some(Unreadable), Some(TheFile), Some(MessyFile)},
        d \in {None, Some(0), Some(1), Some(2), Some(3)},
        p \in {None, Some(Unreadable), Some(TermsFile)},
        r \in {None, Some(<<CasSource>>), Some(<<CasSource, "(">>)},
        t \in {None, Some(100)}}

LoadTokens == {s_teh, s_the, s_abb, s_blank}

Init ==
    /\ state = CheckerStateNew
    /\ published = CheckerStateNew
    /\ now = 0
    /\ ret = NoCall
    /\ sym = SymSpellNew(1)
    /\ sret = [op |-> "none", adds |-> 0]
    /\ inserted = NoRows
    /\ GuardsUnused
    /\ LockUnused

\* checker.load!(config)
Load ==
    /\ ret = NoCall
    /\ now < MaxLoads
    /\ \E config \in LoadConfigs :
          LET r == LoadFull(state, config, now + 1)
          IN  /\ state' = r.state
              /\ published' = IF r.result.ok THEN r.state ELSE published
              /\ ret' = [op |-> "load", config |-> config, result |-> r.result]
    /\ now' = now + 1
    /\ UNCHANGED <<symVars, guardVars, lockVars>>

LSuggest == CallSuggest(LoadTokens, {None})
LCorrect == CallCorrect(LoadTokens)
LCorrectIfUnknown == CallCorrectIfUnknown(LoadTokens)
LCorrectTokens == CallCorrectTokens({<<s_teh, s_blank>>})

Next ==
    \/ Load
    \/ LSuggest
    \/ LCorrect
    \/ LCorrectIfUnknown
    \/ LCorrectTokens
    \/ CallStats
    \/ CallHealthcheck
    \/ Drop

Spec == Init /\ [][Next]_vars

----------------------------------------------------------------------------
(* SpecLock: reader calls on two threads next to load! on a third, each    *)
(* call split at its lock operations and at its reads and writes of the    *)
(* CheckerState behind the RwLock                                          *)

Readers == {"r1", "r2"}

\* RwLock::write granted although read guards are alive
WriteLockIgnoresReaders(l) == ~l.writer

\* RwLock::read (lib.rs:128, 154, 169, 224) is granted while no write guard
\* is alive
ReadLockFree(l) == ~l.writer

\* RwLock::write (lib.rs:113) is granted while no guard at all is alive
WriteLockFree(l) == l.readers = {} /\ ~l.writer

\* lib.rs:114-120: the fields in the order of their assignments
StateFields ==
    <<"symspell", "guards", "frequency_threshold", "loaded", "loaded_at",
      "dictionary_size", "edit_distance">>

\* two loads that differ in the index, the guards and the threshold, and one
\* that fails before it asks for the lock
LockConfigs ==
    {Config(Some(File(<<DictLine(s_ab, 50)>>)), None, None, None, None),
     Config(Some(File(<<DictLine(s_a, 5000), DictLine(s_ab, 50)>>)), Some(2), None,
            Some(<<CasSource>>), Some(100)),
     Config(Some(Unreadable), None, None, None, None)}

LockCalls ==
    {[op |-> "suggest", word |-> s_b, max |-> None],
     [op |-> "correct_if_unknown", word |-> s_abb, use_guard |-> None],
     [op |-> "correct_tokens", tokens |-> <<s_abb, s_b>>, use_guard |-> Some(TRUE)]}

\* the whole handler of a reader call on one CheckerState
CallOn(st, call) ==
    CASE call.op = "suggest" -> Suggest(st, call.word, call.max)
      [] call.op = "correct_if_unknown" -> CorrectIfUnknown(st, call.word, call.use_guard)
      [] call.op = "correct_tokens" -> CorrectTokens(st, call.tokens, call.use_guard)

Idle == [pc |-> "idle"]

InitLock ==
    /\ state = CheckerStateNew
    /\ published = CheckerStateNew
    /\ now = 0
    /\ ret = NoCall
    /\ lock = [readers |-> {}, writer |-> FALSE]
    /\ rd = [r \in Readers |-> Idle]
    /\ wr = Idle
    /\ sym = SymSpellNew(1)
    /\ sret = [op |-> "none", adds |-> 0]
    /\ inserted = NoRows
    /\ GuardsUnused

\* load_full up to lib.rs:111: the configuration is read and the index and
\* the guards are built before the write lock is asked for; an error
\* returns without it
LoadBuild ==
    /\ wr.pc = "idle"
    /\ now < MaxLoads
    /\ \E config \in LockConfigs :
          LET r == LoadFull(CheckerStateNew, config, now + 1)
          IN  wr' = IF r.result.ok THEN [pc |-> "built", new |-> r.state, field |-> 1]
                    ELSE Idle
    /\ now' = now + 1
    /\ UNCHANGED <<state, published, ret, lock, rd, symVars, guardVars>>

\* lib.rs:113: self.state.write()
LoadLock ==
    /\ wr.pc = "built"
    /\ WriteLockFree(lock)
    /\ lock' = [lock EXCEPT !.writer = TRUE]
    /\ wr' = [wr EXCEPT !.pc = "writing"]
    /\ UNCHANGED <<checkerVars, rd, symVars, guardVars>>

\* lib.rs:114-120: one assignment
LoadWrite ==
    /\ wr.pc = "writing"
    /\ wr.field <= Len(StateFields)
    /\ state' = [state EXCEPT ![StateFields[wr.field]] = wr.new[StateFields[wr.field]]]
    /\ wr' = [wr EXCEPT !.field = @ + 1]
    /\ UNCHANGED <<published, now, ret, lock, rd, symVars, guardVars>>

\* lib.rs:122-123: Ok(()) is returned and the write guard dropped
LoadUnlock ==
    /\ wr.pc = "writing"
    /\ wr.field > Len(StateFields)
    /\ lock' = [lock EXCEPT !.writer = FALSE]
    /\ published' = state
    /\ wr' = Idle
    /\ UNCHANGED <<state, now, ret, rd, symVars, guardVars>>

\* lib.rs:128, 169, 224: self.state.read()
ReadLock(r) ==
    /\ rd[r].pc = "idle"
    /\ ReadLockFree(lock)
    /\ \E call \in LockCalls :
          rd' = [rd EXCEPT ![r] = [pc |-> "locked", call |-> call, acc |-> <<>>,
                                   out |-> None, snap |-> state]]
    /\ lock' = [lock EXCEPT !.readers = @ \cup {r}]
    /\ UNCHANGED <<checkerVars, wr, symVars, guardVars>>

\* lib.rs:130, 171, 227: if !state.loaded
ReadLoaded(r) ==
    /\ rd[r].pc = "locked"
    /\ rd' = [rd EXCEPT ![r] = IF state.loaded THEN [@ EXCEPT !.pc = "working"]
                               ELSE [@ EXCEPT !.pc = "returning",
                                              !.out = Some(Err("RuntimeError"))]]
    /\ UNCHANGED <<checkerVars, lock, wr, symVars, guardVars>>

\* lib.rs:134-146 and 176-217 in one step; lib.rs:234-277, one token of the
\* batch in one step: each reads the CheckerState through the guard
ReadWork(r) ==
    /\ rd[r].pc = "working"
    /\ LET call == rd[r].call
       IN  IF call.op = "correct_tokens"
           THEN IF state.symspell = None
                THEN rd' = [rd EXCEPT ![r].pc = "returning",
                                      ![r].out = Some(Err("RuntimeError"))]
                ELSE LET acc == Append(rd[r].acc,
                                       BatchToken(state, Unwrap(state.symspell),
                                                  call.tokens[Len(rd[r].acc) + 1],
                                                  UnwrapOr(call.use_guard, FALSE)))
                     IN  IF Len(acc) < Len(call.tokens)
                         THEN rd' = [rd EXCEPT ![r].acc = acc]
                         ELSE rd' = [rd EXCEPT ![r].acc = acc,
                                               ![r].pc = "returning",
                                               ![r].out = Some(Ok(acc))]
           ELSE rd' = [rd EXCEPT ![r].pc = "returning",
                                 ![r].out = Some(CallOn(state, call))]
    /\ UNCHANGED <<checkerVars, lock, wr, symVars, guardVars>>

\* the function returns: the read guard is dropped
ReadUnlock(r) ==
    /\ rd[r].pc = "returning"
    /\ lock' = [lock EXCEPT !.readers = @ \ {r}]
    /\ rd' = [rd EXCEPT ![r] = Idle]
    /\ UNCHANGED <<checkerVars, wr, symVars, guardVars>>

NextLock ==
    \/ LoadBuild
    \/ LoadLock
    \/ LoadWrite
    \/ LoadUnlock
    \/ \E r \in Readers : ReadLock(r)
    \/ \E r \in Readers : ReadLoaded(r)
    \/ \E r \in Readers : ReadWork(r)
    \/ \E r \in Readers : ReadUnlock(r)

SpecLock == InitLock /\ [][NextLock]_vars

----------------------------------------------------------------------------
(* SpecGuards: a Guards value filled by the loaders of guards.rs and asked *)
(* with is_protected and is_protected_normalized                           *)

MaxGuardLoads == 2

s_A_B == <<65, 32, 66>>
s_Ab_padded == <<32, 65, 98, 9>>
s_A_hyphen_b == <<65, 45, 98>>
s_comment == <<35, 32, 97, 98>>

\* the lines of the contents: " Ab\t" between a comment and an empty line;
\* "A B"; "A-b"; a comment and a blank line only
GuardContents ==
    {<<s_comment, s_Ab_padded, <<>>>>, <<s_A_B>>, <<s_A_hyphen_b>>, <<s_comment, s_blank>>}

GuardTokens ==
    {s_Ab, s_ab, s_AB, s_A_B, s_a_b, s_A_hyphen_b, <<97, 45, 98>>, s_comment, s_Ab_padded}

InitGuards ==
    /\ grd = GuardsNew
    /\ glines = <<>>
    /\ ret = NoCall
    /\ state = CheckerStateNew
    /\ published = CheckerStateNew
    /\ now = 0
    /\ sym = SymSpellNew(1)
    /\ sret = [op |-> "none", adds |-> 0]
    /\ inserted = NoRows
    /\ LockUnused

\* guards.load_symbols(content); glines keeps every content with its loader
GLoadSymbols ==
    /\ ret = NoCall
    /\ Len(glines) < MaxGuardLoads
    /\ \E content \in GuardContents :
          /\ grd' = LoadSymbols(grd, content)
          /\ glines' = Append(glines, [loader |-> "load_symbols", lines |-> content])
    /\ UNCHANGED <<checkerVars, symVars, lockVars>>

\* guards.load_cas(content)
GLoadCas ==
    /\ ret = NoCall
    /\ Len(glines) < MaxGuardLoads
    /\ \E content \in GuardContents :
          /\ grd' = LoadCas(grd, content)
          /\ glines' = Append(glines, [loader |-> "load_cas", lines |-> content])
    /\ UNCHANGED <<checkerVars, symVars, lockVars>>

\* guards.load_skus(content)
GLoadSkus ==
    /\ ret = NoCall
    /\ Len(glines) < MaxGuardLoads
    /\ \E content \in GuardContents :
          /\ grd' = LoadSkus(grd, content)
          /\ glines' = Append(glines, [loader |-> "load_skus", lines |-> content])
    /\ UNCHANGED <<checkerVars, symVars, lockVars>>

\* guards.load_species(content)
GLoadSpecies ==
    /\ ret = NoCall
    /\ Len(glines) < MaxGuardLoads
    /\ \E content \in GuardContents :
          /\ grd' = LoadSpecies(grd, content)
          /\ glines' = Append(glines, [loader |-> "load_species", lines |-> content])
    /\ UNCHANGED <<checkerVars, symVars, lockVars>>

\* guards.is_protected(word)
GIsProtected ==
    /\ ret = NoCall
    /\ \E word \in GuardTokens :
          ret' = [op |-> "is_protected", word |-> word, out |-> IsProtected(grd, word)]
    /\ UNCHANGED <<state, published, now, symVars, guardVars, lockVars>>

\* guards.is_protected_normalized(word, normalize(word))
GIsProtectedNormalized ==
    /\ ret = NoCall
    /\ \E word \in GuardTokens :
          ret' = [op |-> "is_protected_normalized", word |-> word,
                  out |-> IsProtectedNormalized(grd, word, NormalizeWord(word))]
    /\ UNCHANGED <<state, published, now, symVars, guardVars, lockVars>>

NextGuards ==
    \/ GLoadSymbols
    \/ GLoadCas
    \/ GLoadSkus
    \/ GLoadSpecies
    \/ GIsProtected
    \/ GIsProtectedNormalized
    \/ Drop

SpecGuards == InitGuards /\ [][NextGuards]_vars

----------------------------------------------------------------------------
(* Claims                                                                  *)

Words(st) == Unwrap(st.symspell).words

IsCorrectIfUnknown == ret.op = "correct_if_unknown" /\ state.loaded

\* C1: correct_if_unknown(q, use_guard = true) returns q unchanged whenever
\* Guards.is_protected_normalized(q, normalize(q)) holds, whatever the
\* dictionary and the threshold.
C1_ProtectedUnchanged ==
    (/\ IsCorrectIfUnknown
     /\ ret.use_guard = Some(TRUE)
     /\ IsProtectedNormalized(state.guards, ret.word, NormalizeWord(ret.word)))
    => ret.out = Ok(ret.word)

\* "ABA" is protected and returned, where the unguarded call rewrites it to "ab"
C1_Witness ==
    /\ IsCorrectIfUnknown
    /\ ret.word = s_ABA
    /\ ret.use_guard = Some(TRUE)
    /\ IsProtectedNormalized(state.guards, ret.word, NormalizeWord(ret.word))
    /\ ret.out = Ok(s_ABA)
    /\ CorrectIfUnknown(state, s_ABA, Some(FALSE)) = Ok(s_ab)

\* C2: correct_if_unknown(q, g) returns q itself, in its original casing,
\* whenever is_known(q), for both values of g, whatever the frequencies and
\* the threshold.
C2_KnownUnchanged ==
    (IsCorrectIfUnknown /\ Correct(state, ret.word) = Ok(TRUE))
    => ret.out = Ok(ret.word)

\* "Ab" is known through the key "ab", whose canonical form is "ab" with
\* frequency 50, next to "a" with frequency 5000 >= 10 * 50
C2_Witness ==
    /\ IsCorrectIfUnknown
    /\ ret.word = s_Ab
    /\ s_ab \in DOMAIN Words(state)
    /\ Words(state)[s_ab] = WordEntry(s_ab, 50)
    /\ s_a \in DOMAIN Words(state)
    /\ Words(state)[s_a].frequency = 5000
    /\ state.frequency_threshold = 10
    /\ ret.out = Ok(s_Ab)

\* the snapshot of spec S4: {("the", 1000000), ("teh", 1)}, threshold 10
IsTheSnapshot ==
    /\ state.loaded
    /\ Words(state) = (s_the :> WordEntry(s_the, 1000000)) @@ (s_teh :> WordEntry(s_teh, 1))
    /\ state.frequency_threshold = 10

\* C3 as amended: with dictionary {("the",1000000),("teh",1)} and threshold
\* 10, correct_if_unknown("teh", false) returns "teh": "teh" is a dictionary
\* key, so its first suggestion has distance 0 and the token is returned
\* before the frequency gate, and no other word is within distance 1 of it
\* ("the" is two edits away); correct_if_unknown("the", false) returns "the".
C3_TehUnchanged ==
    (IsTheSnapshot /\ ret.op = "correct_if_unknown" /\ ret.use_guard = Some(FALSE))
    => /\ ret.word = s_teh =>
             LET suggestions == Suggestions(Unwrap(state.symspell), s_teh, 5)
             IN  /\ ret.out = Ok(s_teh)
                 /\ suggestions # <<>>
                 /\ suggestions[1].distance = 0
                 /\ \A i \in 2..Len(suggestions) : suggestions[i].distance > 1
       /\ ret.word = s_the => ret.out = Ok(s_the)

C3_Witness ==
    /\ IsTheSnapshot
    /\ ret.op = "correct_if_unknown"
    /\ ret.use_guard = Some(FALSE)
    /\ ret.word = s_teh
    /\ GetFrequency(Unwrap(state.symspell), s_teh) = Some(1)
    /\ ret.out = Ok(s_teh)

\* C3 as stated: correct_if_unknown("teh", false) returns "the" and
\* correct_if_unknown("the", false) returns "the".
C3_Original ==
    (IsTheSnapshot /\ ret.op = "correct_if_unknown" /\ ret.use_guard = Some(FALSE))
    => /\ ret.word = s_teh => ret.out = Ok(s_the)
       /\ ret.word = s_the => ret.out = Ok(s_the)

\* the snapshot of spec S1, built with edit_distance = 2
IsHelloSnapshot ==
    /\ state.loaded
    /\ Words(state) = (s_hello :> WordEntry(s_hello, 1000))
                          @@ (s_hell :> WordEntry(s_hell, 500))
                          @@ (s_help :> WordEntry(s_help, 750))
    /\ Unwrap(state.symspell).max_edit_distance = 2

IsSuggestHelo == IsHelloSnapshot /\ ret.op = "suggest" /\ ret.word = s_helo /\ ret.max = Some(3)

\* C4 as amended: suggest("helo", 3) on {("hello",1000),("hell",500),
\* ("help",750)} with edit_distance 2 returns exactly ("hello",1,1000), then
\* ("help",1,750), then ("hell",1,500).
C4_HeloOrder ==
    IsSuggestHelo
    => ret.out = Ok(<<Suggestion(s_hello, 1, 1000), Suggestion(s_help, 1, 750),
                      Suggestion(s_hell, 1, 500)>>)

C4_Witness == IsSuggestHelo /\ ret.out.ok /\ Len(ret.out.val) = 3

\* C4 as stated: the order is ("hello",1,1000), ("hell",1,500), ("help",1,750).
C4_Original ==
    IsSuggestHelo
    => ret.out = Ok(<<Suggestion(s_hello, 1, 1000), Suggestion(s_hell, 1, 500),
                      Suggestion(s_help, 1, 750)>>)

\* C5: on a loaded engine correct_tokens(xs, g) returns a list as long as xs
\* whose i-th element is correct_if_unknown(xs[i], g) on the same snapshot.
C5_BatchParity ==
    (ret.op = "correct_tokens" /\ state.loaded)
    => /\ ret.out.ok
       /\ Len(ret.out.val) = Len(ret.tokens)
       /\ \A i \in 1..Len(ret.tokens) :
             Ok(ret.out.val[i]) = CorrectIfUnknown(state, ret.tokens[i], ret.use_guard)

\* a guarded batch with a token that is corrected and one that is protected
C5_Witness ==
    /\ ret.op = "correct_tokens"
    /\ state.loaded
    /\ ret.use_guard = Some(TRUE)
    /\ ret.tokens = <<s_abb, s_ABA>>
    /\ ret.out = Ok(<<s_ab, s_ABA>>)

\* C6: correct_if_unknown(correct_if_unknown(q, g), g) = correct_if_unknown(q, g)
\* on a fixed snapshot whose keys are the normalized canonical terms.
C6_Idempotent ==
    (IsCorrectIfUnknown /\ ret.out.ok)
    => CorrectIfUnknown(state, ret.out.val, ret.use_guard) = ret.out

\* "abb" is corrected to "ab" (50), whose neighbour "a" (5000) passes the
\* known-word gate 5000 >= 10 * 50
C6_Witness ==
    /\ IsCorrectIfUnknown
    /\ ret.word = s_abb
    /\ ret.out = Ok(s_ab)
    /\ state.frequency_threshold = 10
    /\ s_a \in DOMAIN Words(state)
    /\ Words(state)[s_a].frequency = 5000
    /\ Words(state)[s_ab].frequency = 50

\* C7: the Checker's state is the one published by the most recent load that
\* returned Ok, or the initial state if none did: a load that fails changes
\* no field.
C7_FailedLoadKeepsState == state = published

\* a load fails after another has succeeded
C7_Witness ==
    /\ ret.op = "load"
    /\ ~ret.result.ok
    /\ now = 2
    /\ state.loaded
    /\ state.loaded_at = Some(1)
    /\ ret.config.dictionary_path # None
    /\ Unwrap(ret.config.dictionary_path).readable

\* C8: suggest(query, max) returns the empty list whenever normalize(query)
\* is empty, for every dictionary and both edit distances.
C8_EmptyQueryEmpty ==
    (ret.op = "suggest" /\ state.loaded /\ NormalizeWord(ret.word) = <<>>)
    => ret.out = Ok(<<>>)

\* C9: load fails with an argument error and publishes nothing for every
\* configured edit_distance outside {1, 2}, so that max_edit_distance of
\* every loaded index is 1 or 2.
C9_EditDistanceValidated ==
    /\ (/\ ret.op = "load"
        /\ ret.config.edit_distance # None
        /\ Unwrap(ret.config.edit_distance) \notin {1, 2})
       => ret.result = Err("ArgError")
    /\ state.loaded => Unwrap(state.symspell).max_edit_distance \in {1, 2}

\* Levenshtein distance by its recurrence on the first code points
RECURSIVE Levenshtein(_, _)
Levenshtein(a, b) ==
    IF a = <<>> THEN Len(b)
    ELSE IF b = <<>> THEN Len(a)
    ELSE IF Head(a) = Head(b) THEN Levenshtein(Tail(a), Tail(b))
    ELSE 1 + Min2(Levenshtein(Tail(a), Tail(b)),
                  Min2(Levenshtein(Tail(a), b), Levenshtein(a, Tail(b))))

IsFullSuggestions ==
    /\ sret.op = "suggestions"
    /\ NormalizeWord(sret.word) # <<>>
    /\ sret.max >= Cardinality(DOMAIN sym.words)

\* C10: for a dictionary built by add_word calls with D in {1, 2} and a query
\* with a non-empty normalized form, suggestions(q, max) with max at least
\* the dictionary size holds exactly the dictionary words at Levenshtein
\* distance at most D from normalize(q), each with that distance.
C10_ExactlyWithinDistance ==
    IsFullSuggestions
    => LET q == NormalizeWord(sret.word)
           near == {k \in DOMAIN sym.words : Levenshtein(q, k) <= sym.max_edit_distance}
           Expected(k) == Suggestion(sym.words[k].canonical, Levenshtein(q, k),
                                     sym.words[k].frequency)
       IN  /\ Len(sret.out) = Cardinality(near)
           /\ {sret.out[i] : i \in 1..Len(sret.out)} = {Expected(k) : k \in near}

\* D = 1 and the query "b": "a" (same length, through the empty
\* delete-variant), "ab" (longer) and "" (shorter) are all returned
C10_Witness ==
    /\ IsFullSuggestions
    /\ sym.max_edit_distance = 1
    /\ sret.word = s_b
    /\ DOMAIN sym.words = {s_a, s_ab, <<>>}
    /\ Len(sret.out) = 3

\* the dictionary keys at Levenshtein distance exactly 1 from normalize(q)
NearOne(st, word) ==
    {k \in DOMAIN Words(st) : Levenshtein(NormalizeWord(word), k) = 1}

\* the key of `keys` that ranks first by (frequency descending, term ascending)
RanksFirst(st, keys) ==
    CHOOSE k \in keys :
        \A j \in keys \ {k} :
            \/ Words(st)[k].frequency > Words(st)[j].frequency
            \/ /\ Words(st)[k].frequency = Words(st)[j].frequency
               /\ StrLess(Words(st)[k].canonical, Words(st)[j].canonical)

\* what C11 states of a token that is neither guarded nor in the dictionary
NearestOrUnchanged(st, word) ==
    LET near == NearOne(st, word)
    IN  IF near # {} /\ Words(st)[RanksFirst(st, near)].frequency >= st.frequency_threshold
        THEN Words(st)[RanksFirst(st, near)].canonical
        ELSE word

IsUnknownUnguarded ==
    /\ IsCorrectIfUnknown
    /\ ~ (/\ UnwrapOr(ret.use_guard, FALSE)
          /\ IsProtectedNormalized(state.guards, ret.word, NormalizeWord(ret.word)))
    /\ NormalizeWord(ret.word) \notin DOMAIN Words(state)

\* C11: for a token q that is not protected (or with use_guard = false) and
\* not in the dictionary, correct_if_unknown returns the canonical term of
\* the dictionary word at Levenshtein distance exactly 1 from normalize(q)
\* that ranks first by (frequency descending, term ascending) if that word's
\* frequency is at least frequency_threshold, and q unchanged otherwise;
\* never a word at distance 2, and whatever the truncation to 5 suggestions.
C11_NearestAboveThreshold ==
    IsUnknownUnguarded => ret.out = Ok(NearestOrUnchanged(state, ret.word))

\* the same statement on the snapshots whose index holds delete-variants,
\* i.e. was built with max_edit_distance 1 or 2
C11_OnValidDistance ==
    (IsUnknownUnguarded /\ Unwrap(state.symspell).max_edit_distance \in {1, 2})
    => ret.out = Ok(NearestOrUnchanged(state, ret.word))

\* C12 as stated: after any sequence of dictionary insertions, words[k]
\* holds the canonical form and frequency of the row with the highest
\* frequency among the inserted rows that normalize to k, the first seen of
\* them on ties; a later row with a lower or equal frequency never replaces
\* the stored entry.
C12_HighestFrequencyKept ==
    /\ DOMAIN sym.words = DOMAIN inserted.first_highest
    /\ \A k \in DOMAIN sym.words : sym.words[k] = inserted.first_highest[k]

\* C12 as amended: after any sequence of add_word calls, words[k] holds the
\* canonical form and frequency of the row most recently inserted among the
\* rows that normalize to k, whatever the frequencies: a later row always
\* replaces the stored entry.
C12_LastRowKept ==
    /\ DOMAIN sym.words = DOMAIN inserted.last
    /\ \A k \in DOMAIN sym.words : sym.words[k] = inserted.last[k]

\* ("a", 50) was inserted, then ("A", 5) with the same key "a": the entry
\* holds the later row with the lower frequency
C12_Witness ==
    /\ s_a \in DOMAIN sym.words
    /\ inserted.first_highest[s_a] = WordEntry(s_a, 50)
    /\ inserted.last[s_a] = WordEntry(<<65>>, 5)
    /\ sym.words[s_a] = WordEntry(<<65>>, 5)

\* a CheckerState as Checker::new or one whole load leaves it
IsWholeSnapshot(st) ==
    \/ st = CheckerStateNew
    \/ \E config \in LockConfigs, t \in 1..MaxLoads :
          LET r == LoadFull(CheckerStateNew, config, t)
          IN  r.result.ok /\ st = r.state

\* C13: under any interleaving of reader calls with a concurrent reload,
\* each call (one suggest, one correct_if_unknown, one whole correct_tokens
\* batch) observes a single consistent snapshot of index, guards and
\* threshold: while a reader holds its read guard the CheckerState is the
\* one it locked, which is the unloaded state or the outcome of one whole
\* load, and what the call returns is the handler's result on that snapshot,
\* for every token of a batch.
C13_SingleSnapshot ==
    \A r \in Readers :
        /\ rd[r].pc # "idle"
           => /\ state = rd[r].snap
              /\ IsWholeSnapshot(state)
        /\ rd[r].pc = "returning"
           => rd[r].out = Some(CallOn(rd[r].snap, rd[r].call))

\* a batch has been corrected against the first load, token by token, while
\* the second load, which would correct both tokens differently, has built
\* its index and waits for the write lock
C13_Witness ==
    /\ rd["r1"].pc = "returning"
    /\ rd["r1"].call.op = "correct_tokens"
    /\ rd["r1"].out = Some(Ok(<<s_ab, s_ab>>))
    /\ wr.pc = "built"
    /\ CallOn(wr.new, rd["r1"].call) = Ok(<<s_abb, s_a>>)
    /\ rd["r2"].pc = "working"

\* the trimmed lines that the loaders have accepted so far
LoadedTerms ==
    {t \in UNION {{Trim(glines[i].lines[j]) : j \in 1..Len(glines[i].lines)} :
                     i \in 1..Len(glines)} : IsTermLine(t)}

AllEntries(g) == g.symbols_set \cup g.cas_set \cup g.skus_set \cup g.species_set

\* C14: after the loaders have processed any content, every line that is
\* non-empty and not '#'-prefixed after trimming has contributed the trimmed
\* line, its lowercase and its normalized form, so that is_protected returns
\* true for each of the three strings and is_protected_normalized(t,
\* normalize(t)) returns true for every token t whose normalized form is
\* that of a loaded line; empty and '#'-prefixed lines contribute nothing.
C14_ThreeFormsProtected ==
    /\ \A term \in LoadedTerms :
          {term, ToLowercase(term), NormalizeWord(term)} \subseteq AllEntries(grd)
    /\ (/\ ret.op = "is_protected"
        /\ \E term \in LoadedTerms :
              ret.word \in {term, ToLowercase(term), NormalizeWord(term)})
       => ret.out
    /\ (/\ ret.op = "is_protected_normalized"
        /\ \E term \in LoadedTerms : NormalizeWord(ret.word) = NormalizeWord(term))
       => ret.out
    /\ LoadedTerms = {} => AllEntries(grd) = {}

====
